---- MODULE Spec2Model ----
(***************************************************************************)
(* generate-dotpkg.ts: the incremental artifact generation of one          *)
(* generateDotpkgStream run.  The state is the writtenFilesCache of the    *)
(* run, the output directory, the schema and the snapshot being processed, *)
(* the position of the stream and every fsPromise.writeFile still in       *)
(* flight.  Strings that the code inspects character by character          *)
(* (document ids, file names) are sequences of one-character strings.      *)
(***************************************************************************)
EXTENDS Integers, Sequences, FiniteSets, TLC

\* ------------------------------------------------------------------ bounds
\* Snapshots fetchData emits in one run, documents per snapshot, and
\* writeFile rejections per run, when the file system may fail.
MaxPasses == 2
MaxDocs == 1
MaxRejects == 1
\* Snapshots per run when neither the source nor the file system fails.
MaxSteadyPasses == 3
\* Documents of the snapshot of a run of a single pass.
MaxPlanDocs == 2
\* Documents differ in a body 0..MaxBody.
MaxBody == 1
\* Length of the ids of the run that exercises idToFileName.
MaxIdLen == 3

\* ------------------------------------------------------------ JS values
\* The value `undefined` (an absent property, a missing array element).
Undefined == <<"undefined">>
\* The outcome of evaluating an expression that throws a TypeError.
TypeError == <<"TypeError", "thrown">>

Digits == {"0", "1", "2", "3", "4", "5", "6", "7", "8", "9"}

\* UTF-16 code units of the characters document ids are built from here.
CharCode(c) ==
  CASE c = "/" -> 47
    [] c = "1" -> 49
    [] c = "2" -> 50
    [] c = "_" -> 95
    [] c = "a" -> 97
    [] c = "b" -> 98

\* ---------------------------------------------------------------- naming
\* A variant without the g flag: str.replace(/\//, '__')
replaceFirstSlash(str) ==
  IF \E k \in 1..Len(str) : str[k] = "/"
  THEN LET k == CHOOSE n \in 1..Len(str) :
                  str[n] = "/" /\ \A m \in 1..(n - 1) : str[m] # "/"
       IN  SubSeq(str, 1, k - 1) \o <<"_", "_">> \o SubSeq(str, k + 1, Len(str))
  ELSE str

\* str.replace(/\//g, '__')
RECURSIVE replaceSlashes(_)
replaceSlashes(str) ==
  IF str = <<>> THEN <<>>
  ELSE (IF Head(str) = "/" THEN <<"_", "_">> ELSE <<Head(str)>>)
         \o replaceSlashes(Tail(str))

\* /^[0-9]/.test(str) coerces str to a string: undefined becomes
\* "undefined", which starts with no digit, and is returned as it is.
leftPadWithUnderscoreIfStartsWithNumber(str) ==
  IF str = Undefined THEN Undefined
  ELSE IF Len(str) > 0 /\ str[1] \in Digits THEN <<"_">> \o str
  ELSE str

\* A variant that coerces its argument to a string before replacing.
idToFileNameCoercing(id) ==
  LET padded == leftPadWithUnderscoreIfStartsWithNumber(id)
  IN  IF padded = Undefined THEN <<"u", "n", "d", "e", "f">>
      ELSE replaceSlashes(padded)

\* leftPadWithUnderscoreIfStartsWithNumber(id).replace(...): calling
\* .replace on undefined throws.
idToFileName(id) ==
  LET padded == leftPadWithUnderscoreIfStartsWithNumber(id)
  IN  IF padded = Undefined THEN TypeError ELSE replaceSlashes(padded)

\* utils.inflection and utils.lowercaseFirstChar / uppercaseFirstChar on the
\* type names of the schemas below.
singularize(name) ==
  CASE name = "Post" -> "Post"
    [] name = "Settings" -> "Setting"
    [] name = "Index" -> "Index"

pluralize(name) ==
  CASE name = "Post" -> "Posts"
    [] name = "Settings" -> "Settings"

lowercaseFirstChar(str) ==
  CASE str = "Post" -> "post"
    [] str = "Setting" -> "setting"
    [] str = "Index" -> "index"

uppercaseFirstChar(str) ==
  CASE str = "Posts" -> "Posts"
    [] str = "Settings" -> "Settings"

\* 'all' + str
allPrefixed(str) ==
  CASE str = "Posts" -> "allPosts"
    [] str = "Settings" -> "allSettings"

getDataVariableName(docDef) ==
  IF docDef.isSingleton
  THEN lowercaseFirstChar(singularize(docDef.name))
  ELSE allPrefixed(uppercaseFirstChar(pluralize(docDef.name)))

\* camelCase(_, { stripRegexp }) of the camel-case package: a function of
\* the file name alone.
camelCase(fileName) == <<"camelCase", fileName>>

makeVariableName(id) == camelCase(idToFileName(id))

\* ------------------------------------------------------------ sequences
RECURSIVE SelectDocs(_, _)
\* allDocuments.filter((_) => _[typeNameField] === name).map((_) => _._id)
SelectDocs(docs, name) ==
  IF docs = <<>> THEN <<>>
  ELSE (IF Head(docs).type = name THEN <<Head(docs)._id>> ELSE <<>>)
         \o SelectDocs(Tail(docs), name)

MapSeq(s, Op(_)) == [i \in 1..Len(s) |-> Op(s[i])]

Range(s) == {s[i] : i \in 1..Len(s)}

\* ---------------------------------------------------------- the planner
\* path.join(targetPath, ...path_)
withPrefix(path) == <<"targetPath">> \o path

makePackageJson == <<"packageJson">>

renderTypes(schemaDef) == <<"renderTypes", schemaDef>>

makeHelperTypes == <<"helperTypes">>

makeDataTypes(schemaDef) ==
  <<"dataTypes",
    MapSeq(schemaDef,
           LAMBDA docDef : <<getDataVariableName(docDef), docDef.name,
                             docDef.isSingleton>>)>>

makeIndexJs(schemaDef) ==
  <<"indexJs",
    MapSeq(schemaDef,
           LAMBDA docDef : <<getDataVariableName(docDef),
                             docDef.isSingleton>>)>>

\* The content of a per-type barrel, or TypeError when building it throws.
makeDataExportFile(docDef, documentIds) ==
  IF docDef.isSingleton
  THEN LET documentId == IF Len(documentIds) > 0 THEN documentIds[1]
                         ELSE Undefined
           fileName == idToFileName(documentId)
       IN  IF fileName = TypeError THEN TypeError
           ELSE <<"singletonBarrel", getDataVariableName(docDef),
                  docDef.name, fileName>>
  ELSE <<"collectionBarrel", getDataVariableName(docDef),
         MapSeq(documentIds,
                LAMBDA id : <<makeVariableName(id), docDef.name,
                              idToFileName(id)>>),
         MapSeq(documentIds, makeVariableName)>>

\* JSON.stringify(document, null, 2)
JSONstringify(document) == <<"json", document>>

dataBarrelFiles(schemaDef, cache) ==
  LET allDocuments == MapSeq(cache, LAMBDA item : item.document)
  IN  MapSeq(schemaDef,
        LAMBDA docDef :
          [content |-> makeDataExportFile(docDef,
                         SelectDocs(allDocuments, docDef.name)),
           filePath |-> withPrefix(<<"data", getDataVariableName(docDef),
                                     ".mjs">>),
           documentHash |-> Undefined])

dataJsonFiles(cache) ==
  MapSeq(cache,
    LAMBDA item :
      [content |-> JSONstringify(item.document),
       filePath |-> withPrefix(<<"data", item.document.type,
                                 idToFileName(item.document._id), ".json">>),
       documentHash |-> item.documentHash])

\* The files that carry no documentHash and come first in the Promise.all.
staticFiles(schemaDef) ==
  << [filePath |-> withPrefix(<<"package", ".json">>),
      content |-> makePackageJson, documentHash |-> Undefined],
     [filePath |-> withPrefix(<<"types", "index", ".d.ts">>),
      content |-> renderTypes(schemaDef), documentHash |-> Undefined],
     [filePath |-> withPrefix(<<"types", "index", ".mjs">>),
      content |-> makeHelperTypes, documentHash |-> Undefined],
     [filePath |-> withPrefix(<<"data", "index", ".d.ts">>),
      content |-> makeDataTypes(schemaDef), documentHash |-> Undefined],
     [filePath |-> withPrefix(<<"data", "index", ".mjs">>),
      content |-> makeIndexJs(schemaDef), documentHash |-> Undefined] >>

\* The write requests of one pass, in the order of the Promise.all array.
plannedFiles(schemaDef, cache) ==
  staticFiles(schemaDef) \o dataBarrelFiles(schemaDef, cache)
    \o dataJsonFiles(cache)

\* Building the barrels throws before any directory or file is touched.
planningThrows(schemaDef, cache) ==
  \E i \in 1..Len(schemaDef) :
    dataBarrelFiles(schemaDef, cache)[i].content = TypeError

dataDirPaths(schemaDef) ==
  {withPrefix(<<"types">>)}
    \cup {withPrefix(<<"data", schemaDef[i].name>>) : i \in 1..Len(schemaDef)}

\* ------------------------------------------------------- the environment
Post == [name |-> "Post", isSingleton |-> FALSE]

Settings == [name |-> "Settings", isSingleton |-> TRUE]

Index == [name |-> "Index", isSingleton |-> TRUE]

\* Object.values(schemaDef.documentTypeDefMap) of the schemas provideSchema
\* may yield.
Schemas == {<<Post>>, <<Settings>>}

\* The schemas of the run of a single pass.
PlanSchemas == Schemas \cup {<<Index>>}

DocIds == {<<"a", "/", "b">>, <<"a", "_", "_", "b">>, <<"b">>}

\* The characters of the ids of the run that exercises idToFileName, and
\* those ids: every string of up to MaxIdLen characters, and '2024/b'.
IdChars == {"/", "2", "a", "_"}

NamingIds ==
  UNION {[1..n -> IdChars] : n \in 0..MaxIdLen}
    \cup {<<"2", "0", "2", "4", "/", "b">>}

Bodies == 0..MaxBody

HasSlash(id) == \E k \in 1..Len(id) : id[k] = "/"

\* The documentHash the source attaches to a document.  Two documents of one
\* output path have different hashes when their contents differ; documents
\* of different paths may have the same hash (a source moved to another id
\* keeps it).  Body 0 stands for a document whose hash is the empty string.
Fingerprint(document) ==
  IF document.body = 0 THEN <<>>
  ELSE <<"sha", document.type, document.body, HasSlash(document._id)>>

Documents(schemaDef, ids) ==
  [_id : ids, type : {schemaDef[i].name : i \in 1..Len(schemaDef)},
   body : Bodies]

CacheItems(schemaDef, ids) ==
  {[document |-> d, documentHash |-> Fingerprint(d)] :
     d \in Documents(schemaDef, ids)}

\* Object.values(cache.cacheItemsMap): the items in the iteration order of
\* the map, identifiers unique.
Snapshots(schemaDef, maxDocs, ids) ==
  {c \in UNION {[1..n -> CacheItems(schemaDef, ids)] : n \in 0..maxDocs} :
     \A i, j \in 1..Len(c) :
       c[i].document._id = c[j].document._id => i = j}

\* ------------------------------------------------------------ the state
VARIABLES
  pc,                \* position of the stream
  schemaDef,         \* the schema resolveParams obtained
  cache,             \* the snapshot of the pass
  passNo,            \* number of elements fetchData has emitted
  writtenFilesCache, \* filePath -> documentHash
  disk,              \* filePath -> content of the file
  mkdirPending,      \* directories whose mkdir has not settled
  pending,           \* fsPromise.writeFile calls that have not settled
  issued,            \* indexes of the requests of this pass handed to fs
  outcomes,          \* the Either values the stream has emitted
  rejects,           \* number of writeFile calls that were rejected
  resolved,          \* how provideSchema and ArtifactsDir.mkdir ended
  docDelta,          \* per document of the pass: how it relates to the
                     \* snapshot of the pass before
  mkdirCode,         \* what the mkdir settled by the latest step reported
  entry              \* the exported function that was called

vars == <<pc, schemaDef, cache, passNo, writtenFilesCache, disk,
          mkdirPending, pending, issued, outcomes, rejects, resolved,
          docDelta, mkdirCode, entry>>

Lookup(f, k) == IF k \in DOMAIN f THEN f[k] ELSE Undefined

Put(f, k, v) == [x \in DOMAIN f \cup {k} |-> IF x = k THEN v ELSE f[x]]

EmptyMap == [x \in {} |-> Undefined]

\* --------------------------------------- writeFileWithWrittenFilesCache
\* A variant that looks the hash up under any path.
fileIsUpToDateAnyPath(wfc, req) ==
  req.documentHash # Undefined
    /\ \E filePath \in DOMAIN wfc : wfc[filePath] = req.documentHash

\* A variant that compares the cache entry without testing for undefined.
fileIsUpToDateNoUndefinedTest(wfc, req) ==
  Lookup(wfc, req.filePath) = req.documentHash

fileIsUpToDate(wfc, req) ==
  req.documentHash # Undefined
    /\ Lookup(wfc, req.filePath) = req.documentHash

\* if (documentHash): undefined and '' are falsy.
Truthy(documentHash) == documentHash # Undefined /\ documentHash # <<>>

\* A variant that records whatever documentHash holds.
cacheAfterWriteUnconditional(wfc, req) ==
  Put(wfc, req.filePath, req.documentHash)

\* The cache after fsPromise.writeFile resolved.
cacheAfterWrite(wfc, req) ==
  IF Truthy(req.documentHash)
  THEN Put(wfc, req.filePath, req.documentHash)
  ELSE wfc

\* A variant that records the hash although the write was rejected.
cacheAfterFailedWriteRecording(wfc, req) == cacheAfterWrite(wfc, req)

\* The cache after fsPromise.writeFile rejected: the await throws.
cacheAfterFailedWrite(wfc, req) == wfc

\* What a file holds after a write to it failed part way.
Truncated == <<"truncated">>

\* The output directory after fsPromise.writeFile of req rejected: the file
\* is untouched when it could not be opened, and cut short when writing to
\* it failed.
diskAfterFailedWrite(disk_, req) ==
  {disk_, Put(disk_, req.filePath, Truncated)}

\* The requests of a pass that reach fsPromise.writeFile, as operations.
writeOps(schemaDef_, cache_, wfc, pass) ==
  LET files == plannedFiles(schemaDef_, cache_)
  IN  {[pass |-> pass, idx |-> i, filePath |-> files[i].filePath,
        content |-> files[i].content,
        documentHash |-> files[i].documentHash] :
         i \in {k \in 1..Len(files) : ~fileIsUpToDate(wfc, files[k])}}

\* ---------------------------------------------------------------- mkdir
\* A variant that swallows every error.
mkdirRejectsNoError(code) == FALSE

\* A variant that rethrows every error.
mkdirRejectsEveryError(code) == code # "ok"

\* catch (e) { if (e.code !== 'EEXIST') throw e }
mkdirRejects(code) == code # "ok" /\ code # "EEXIST"

MkdirCodes == {"ok", "EEXIST", "EACCES"}

\* --------------------------------------------------------------- stream
Right(info) == <<"Right", info>>

Left(error) == <<"Left", error>>

\* A variant that counts the files of the pass.
GenerateInfoCountingFiles(cache_) == Len(plannedFiles(schemaDef, cache_))

\* T.eitherMap(() => ({ documentCount: Object.keys(...).length }))
GenerateInfo(cache_) == Len(cache_)

\* A variant in which a rejected write is swallowed and the pass reports
\* its document count.
rejectedOutcomeSwallowed(cache_) == Right(GenerateInfo(cache_))

\* T.tryCatchPromise(..., (error) => new fs.UnknownFSError({ error })) and
\* T.either: the outcome of a pass whose promise rejected.
rejectedOutcome(cache_) == Left("UnknownFSError")

\* How document i of snapshot `new` relates to snapshot `old`.
Delta(old, new, i) ==
  LET same == {j \in 1..Len(old) :
                 /\ old[j].document._id = new[i].document._id
                 /\ dataJsonFiles(old)[j].filePath
                      = dataJsonFiles(new)[i].filePath}
  IN  IF same = {} THEN "new"
      ELSE IF \E j \in same : old[j].documentHash = new[i].documentHash
      THEN "same" ELSE "differs"

Init ==
  /\ pc = "Idle"
  /\ schemaDef = <<>>
  /\ cache = <<>>
  /\ passNo = 0
  /\ writtenFilesCache = EmptyMap
  /\ disk = EmptyMap
  /\ mkdirPending = {}
  /\ pending = {}
  /\ issued = {}
  /\ outcomes = <<>>
  /\ rejects = 0
  /\ resolved = <<>>
  /\ docDelta = <<>>
  /\ mkdirCode = "none"
  /\ entry = "none"

\* A variant that takes the schema alone into account.
structParEitherSchemaOnly(schemaResult, targetResult) ==
  IF schemaResult[1] = "Right"
  THEN {<<"Right", [schemaDef |-> schemaResult[2],
                    targetPath |-> "targetPath"]>>}
  ELSE {schemaResult}

\* T.structPar({ schemaDef, targetPath }) then T.either: the possible
\* results, given how the two effects end (both run; either failure fails
\* the struct).
structParEither(schemaResult, targetResult) ==
  IF schemaResult[1] = "Right" /\ targetResult[1] = "Right"
  THEN {<<"Right", [schemaDef |-> schemaResult[2],
                    targetPath |-> targetResult[2]]>>}
  ELSE {r \in {schemaResult, targetResult} : r[1] = "Left"}

SchemaResults ==
  {<<"Right", s>> : s \in Schemas} \cup {<<"Left", "SourceProvideSchemaError">>}

TargetResults == {<<"Right", "targetPath">>, <<"Left", "MkdirError">>}

\* S.fromEffect(resolveParams) and chainMapEitherRight: a Right starts
\* fetchData; a Left is emitted and ends the stream.
ResolveParams(schemaResults, targetResults, entries) ==
  /\ pc = "Idle"
  /\ entry' \in entries
  /\ \E sr \in schemaResults, tr \in targetResults :
       /\ resolved' = <<sr[1], tr[1]>>
       /\ \E r \in structParEither(sr, tr) :
            IF r[1] = "Right"
            THEN /\ schemaDef' = r[2].schemaDef
                 /\ pc' = "AwaitSnapshot"
                 /\ UNCHANGED outcomes
            ELSE /\ outcomes' = Append(outcomes, r)
                 /\ pc' = "Ended"
                 /\ UNCHANGED schemaDef
  /\ mkdirCode' = "none"
  /\ UNCHANGED <<cache, passNo, writtenFilesCache, disk, mkdirPending,
                 pending, issued, rejects, docDelta>>

\* A variant of generateDotpkg without S.take(1).
TakeEveryElement(maxPasses) == maxPasses

\* The number of elements of fetchData the stream is asked for: one under
\* generateDotpkg (S.take(1)), otherwise as many as the source emits.
Take(maxPasses) == IF entry = "generateDotpkg" THEN 1 ELSE maxPasses

\* Lines 139-160 for snapshot c: planning is synchronous and when it throws
\* the pass is over; otherwise every mkdir is started.
Plan(c) ==
  IF planningThrows(schemaDef, c)
  THEN /\ outcomes' = Append(outcomes, rejectedOutcome(c))
       /\ pc' = "AwaitSnapshot"
       /\ mkdirPending' = {}
  ELSE /\ pc' = "EnsuringDirectories"
       /\ mkdirPending' = dataDirPaths(schemaDef)
       /\ UNCHANGED outcomes

\* fetchData emits a snapshot: writeFilesForCache_ runs up to its first
\* await, which is the mkdir of the debug dump when process.env.CL_DEBUG is
\* set and the Promise.all of the mkdirs otherwise.
FetchDataRight(maxPasses, maxDocs, CL_DEBUG, ids) ==
  /\ pc = "AwaitSnapshot"
  /\ passNo < Take(maxPasses)
  /\ \E c \in Snapshots(schemaDef, maxDocs, ids), debug \in CL_DEBUG :
       /\ cache' = c
       /\ docDelta' = [i \in 1..Len(c) |-> Delta(cache, c, i)]
       /\ IF debug
          THEN /\ pc' = "DebugMkdir"
               /\ UNCHANGED <<outcomes, mkdirPending>>
          ELSE Plan(c)
  /\ passNo' = passNo + 1
  /\ issued' = {}
  /\ mkdirCode' = "none" /\ UNCHANGED entry
  /\ UNCHANGED <<schemaDef, writtenFilesCache, disk, pending, rejects,
                 resolved>>

\* fetchData emits a failure: it passes through mapEffectEitherRight.
FetchDataLeft ==
  /\ pc = "AwaitSnapshot"
  /\ passNo < Take(MaxPasses)
  /\ passNo' = passNo + 1
  /\ outcomes' = Append(outcomes, Left("SourceFetchDataError"))
  /\ cache' = <<>>
  /\ docDelta' = <<>>
  /\ issued' = {}
  /\ mkdirCode' = "none" /\ UNCHANGED entry
  /\ UNCHANGED <<pc, schemaDef, writtenFilesCache, disk, mkdirPending,
                 pending, rejects, resolved>>

\* fetchData ends: so does the stream.
FetchDataEnd ==
  /\ pc = "AwaitSnapshot"
  /\ pc' = "Ended"
  /\ mkdirCode' = "none" /\ UNCHANGED entry
  /\ UNCHANGED <<schemaDef, cache, passNo, writtenFilesCache, disk,
                 mkdirPending, pending, issued, outcomes, rejects, resolved,
                 docDelta>>

\* The files of the debug dump.
debugFile(step) ==
  CASE step = "DebugSchema" ->
         [filePath |-> withPrefix(<<"cache", "schema", ".json">>),
          content |-> JSONstringify(schemaDef)]
    [] step = "DebugData" ->
         [filePath |-> withPrefix(<<"cache", "data-cache", ".json">>),
          content |-> JSONstringify(cache)]

\* Lines 132-137: the awaited mkdir and the two awaited writes of the debug
\* dump settle one after the other; a rejection ends the pass, after the
\* last one planning goes on.
DebugSettles(results) ==
  /\ pc \in {"DebugMkdir", "DebugSchema", "DebugData"}
  /\ \E result \in results :
       IF result = "rejected"
       THEN /\ pc' = "AwaitSnapshot"
            /\ outcomes' = Append(outcomes, rejectedOutcome(cache))
            /\ UNCHANGED <<disk, mkdirPending>>
       ELSE CASE pc = "DebugMkdir" ->
                   /\ pc' = "DebugSchema"
                   /\ UNCHANGED <<disk, outcomes, mkdirPending>>
              [] pc = "DebugSchema" ->
                   /\ pc' = "DebugData"
                   /\ disk' = Put(disk, debugFile(pc).filePath,
                                  debugFile(pc).content)
                   /\ UNCHANGED <<outcomes, mkdirPending>>
              [] pc = "DebugData" ->
                   /\ disk' = Put(disk, debugFile(pc).filePath,
                                  debugFile(pc).content)
                   /\ Plan(cache)
  /\ mkdirCode' = "none" /\ UNCHANGED entry
  /\ UNCHANGED <<schemaDef, cache, passNo, writtenFilesCache, pending, issued,
                 rejects, resolved, docDelta>>

\* Every writeFile(...) of the Promise.all array runs up to its await: the
\* cache is read now, for all requests, and the writes are handed to fs.
IssueWrites ==
  LET ops == writeOps(schemaDef, cache, writtenFilesCache, passNo)
  IN  /\ pending' = pending \cup ops
      /\ issued' = {op.idx : op \in ops}
      /\ IF ops = {}
         THEN /\ pc' = "AwaitSnapshot"
              /\ outcomes' = Append(outcomes, Right(GenerateInfo(cache)))
         ELSE /\ pc' = "Writing"
              /\ UNCHANGED outcomes

\* One mkdir of the pass settles.  A rejection rejects the Promise.all and
\* with it the pass; when the last one resolves the writes are issued.
\* (A mkdir still running after its pass failed touches directories only,
\* which this model does not hold, and is dropped.)
MkdirSettles(codes) ==
  /\ pc = "EnsuringDirectories"
  /\ \E dirPath \in mkdirPending, code \in codes :
       /\ mkdirCode' = code
       /\ IF mkdirRejects(code)
          THEN /\ mkdirPending' = {}
               /\ pc' = "AwaitSnapshot"
               /\ outcomes' = Append(outcomes, rejectedOutcome(cache))
               /\ UNCHANGED <<pending, issued>>
          ELSE /\ mkdirPending' = mkdirPending \ {dirPath}
               /\ IF mkdirPending' = {}
                  THEN IssueWrites
                  ELSE UNCHANGED <<pc, outcomes, pending, issued>>
  /\ UNCHANGED <<schemaDef, cache, passNo, writtenFilesCache, disk, rejects,
                 resolved, docDelta, entry>>

\* Whether op belongs to the pass whose Promise.all is still pending.
OfRunningPass(op) == pc = "Writing" /\ op.pass = passNo

\* Reduction: the writes of the static files of one pass (no hash, fixed
\* distinct paths, content fixed by the schema) settle in array order among
\* themselves; they interleave freely with every other write.
MaySettle(op) ==
  op.idx <= Len(staticFiles(schemaDef)) =>
    ~\E o \in pending : o.pass = op.pass /\ o.idx < op.idx

\* fsPromise.writeFile of op resolves: the file holds the content and the
\* hash is recorded; when it was the last write of the running pass, the
\* Promise.all resolves and the pass reports its document count.
WriteResolves ==
  \E op \in pending :
    /\ MaySettle(op)
    /\ pending' = pending \ {op}
    /\ disk' = Put(disk, op.filePath, op.content)
    /\ writtenFilesCache' = cacheAfterWrite(writtenFilesCache, op)
    /\ IF OfRunningPass(op) /\ ~\E o \in pending' : o.pass = passNo
       THEN /\ pc' = "AwaitSnapshot"
            /\ outcomes' = Append(outcomes, Right(GenerateInfo(cache)))
       ELSE UNCHANGED <<pc, outcomes>>
    /\ mkdirCode' = "none" /\ UNCHANGED entry
    /\ UNCHANGED <<schemaDef, cache, passNo, mkdirPending, issued, rejects,
                   resolved, docDelta>>

\* fsPromise.writeFile of op rejects: the first rejection of the running
\* pass rejects the Promise.all, and the pass fails while its other writes
\* go on.
WriteRejects ==
  \E op \in pending :
    /\ rejects < MaxRejects
    /\ rejects' = rejects + 1
    /\ MaySettle(op)
    /\ pending' = pending \ {op}
    /\ disk' \in diskAfterFailedWrite(disk, op)
    /\ writtenFilesCache' = cacheAfterFailedWrite(writtenFilesCache, op)
    /\ IF OfRunningPass(op)
       THEN /\ pc' = "AwaitSnapshot"
            /\ outcomes' = Append(outcomes, rejectedOutcome(cache))
       ELSE UNCHANGED <<pc, outcomes>>
    /\ mkdirCode' = "none" /\ UNCHANGED entry
    /\ UNCHANGED <<schemaDef, cache, passNo, mkdirPending, issued,
                   resolved, docDelta>>

Next ==
  \/ ResolveParams(SchemaResults, TargetResults,
                   {"generateDotpkgStream", "generateDotpkg"})
  \/ FetchDataRight(MaxPasses, MaxDocs, {FALSE}, DocIds)
  \/ FetchDataLeft
  \/ FetchDataEnd
  \/ MkdirSettles(MkdirCodes)
  \/ WriteResolves
  \/ WriteRejects

Spec == Init /\ [][Next]_vars

SteadySchemaResults == {r \in SchemaResults : r[1] = "Right"}

SteadyTargetResults == {r \in TargetResults : r[1] = "Right"}

\* The run in which the source and the file system never fail.
NextSteady ==
  \/ ResolveParams(SteadySchemaResults, SteadyTargetResults,
                   {"generateDotpkgStream"})
  \/ FetchDataRight(MaxSteadyPasses, MaxDocs, {FALSE}, DocIds)
  \/ FetchDataEnd
  \/ MkdirSettles({"ok", "EEXIST"})
  \/ WriteResolves

SpecSteady == Init /\ [][NextSteady]_vars

OnePassSchemaResults == {<<"Right", s>> : s \in PlanSchemas}

\* The run of generateDotpkg, S.take(1): one snapshot, nothing fails.
NextOnePass ==
  \/ ResolveParams(OnePassSchemaResults, SteadyTargetResults,
                   {"generateDotpkg"})
  \/ FetchDataRight(1, MaxPlanDocs, {FALSE}, DocIds)
  \/ MkdirSettles({"ok", "EEXIST"})
  \/ WriteResolves

SpecOnePass == Init /\ [][NextOnePass]_vars

\* The run in which CL_DEBUG may be set and the debug dump and the mkdirs
\* may fail, while no artifact write does.
NextDebug ==
  \/ ResolveParams(SteadySchemaResults, SteadyTargetResults,
                   {"generateDotpkgStream"})
  \/ FetchDataRight(MaxPasses, MaxDocs, BOOLEAN, DocIds)
  \/ FetchDataEnd
  \/ DebugSettles({"resolved", "rejected"})
  \/ MkdirSettles(MkdirCodes)
  \/ WriteResolves

SpecDebug == Init /\ [][NextDebug]_vars

\* The run of generateDotpkg over one document of any id of NamingIds.
NextNaming ==
  \/ ResolveParams(SteadySchemaResults, SteadyTargetResults,
                   {"generateDotpkg"})
  \/ FetchDataRight(1, 1, {FALSE}, NamingIds)
  \/ MkdirSettles({"ok"})
  \/ WriteResolves

SpecNaming == Init /\ [][NextNaming]_vars

\* ------------------------------------------------------------ properties
\* The outcome of pass k, once emitted (passes are numbered from 1; the
\* outcomes of a run whose resolveParams succeeded are those of its passes).
PassEnded(k) == resolved = <<"Right", "Right">> /\ k >= 1 /\ Len(outcomes) >= k

PassSucceeded(k) == PassEnded(k) /\ outcomes[k][1] = "Right"

PassFailed(k) == PassEnded(k) /\ outcomes[k][1] = "Left"

\* The pass of the latest snapshot has come to its writing step.
ReachedWriting == pc = "Writing" \/ PassSucceeded(passNo) \/ issued # {}

\* The paths of the requests of the running pass handed to fs.
IssuedPaths ==
  {plannedFiles(schemaDef, cache)[i].filePath : i \in issued}

\* Index in the Promise.all array of the data file of document i.
DocIdx(i) == Len(staticFiles(schemaDef)) + Len(schemaDef) + i

AlwaysRegenerated ==
  {<<"targetPath", "package", ".json">>,
   <<"targetPath", "types", "index", ".d.ts">>,
   <<"targetPath", "types", "index", ".mjs">>,
   <<"targetPath", "data", "index", ".d.ts">>,
   <<"targetPath", "data", "index", ".mjs">>}
    \cup {<<"targetPath", "data", getDataVariableName(schemaDef[i]), ".mjs">> :
            i \in 1..Len(schemaDef)}

\* C3: in every pass that reaches the writing step a write is issued for
\* package.json, types/index.d.ts, types/index.mjs, data/index.d.ts,
\* data/index.mjs and every per-type barrel, whatever the cache holds.
C3_AlwaysRegenerated ==
  ReachedWriting => AlwaysRegenerated \subseteq IssuedPaths

\* A second pass in which the unchanged document is skipped while the
\* manifest, declarations and barrel are issued again.
C3_Witness ==
  /\ pc = "Writing"
  /\ passNo = 2
  /\ PassSucceeded(1)
  /\ \E i \in 1..Len(cache) : docDelta[i] = "same" /\ DocIdx(i) \notin issued
  /\ AlwaysRegenerated \subseteq IssuedPaths


\* The writes that settle in a step.
Settled == pending \ pending'

\* C4: a request without a fingerprint is always handed to the file system,
\* whatever the cache holds, and its settling, resolved or rejected, leaves
\* the cache as it was.
C4_NoFingerprintAlwaysWrites ==
  /\ [](ReachedWriting =>
          \A i \in 1..Len(plannedFiles(schemaDef, cache)) :
            plannedFiles(schemaDef, cache)[i].documentHash = Undefined
              => i \in issued)
  /\ [][\A op \in Settled :
          op.documentHash = Undefined =>
            /\ writtenFilesCache' = writtenFilesCache
            /\ rejects' = rejects => Lookup(disk', op.filePath) = op.content]_vars

\* A write without fingerprint was rejected (the write of the document is
\* still in flight) after package.json was written, and the cache is empty.
C4_Witness ==
  /\ rejects = 1
  /\ PassFailed(1)
  /\ Len(cache) = 1
  /\ \E op \in pending : op.idx = DocIdx(1)
  /\ <<"targetPath", "package", ".json">> \in DOMAIN disk
  /\ writtenFilesCache = EmptyMap

\* C5: the cache is empty when the run starts and changes only when a write
\* requested with fingerprint h resolves, by setting cache[path] to h; a
\* rejected write leaves it unchanged and no entry is ever removed.
C5_CacheOnlyGrowsOnSuccess ==
  /\ [](passNo = 0 => writtenFilesCache = EmptyMap)
  /\ [][/\ DOMAIN writtenFilesCache \subseteq DOMAIN writtenFilesCache'
        /\ rejects' # rejects => writtenFilesCache' = writtenFilesCache
        /\ writtenFilesCache' # writtenFilesCache =>
             \E op \in Settled :
               /\ op.documentHash # Undefined
               /\ writtenFilesCache'
                    = Put(writtenFilesCache, op.filePath, op.documentHash)
               /\ Lookup(disk', op.filePath) = op.content]_vars

\* The cache holds an entry and a write has been rejected.
C5_Witness == writtenFilesCache # EmptyMap /\ rejects = 1

\* C6: when a write of a pass is rejected the outcome of that pass is a
\* failure, and the rejection undoes nothing: every other file on disk and
\* the cache entries stay as they were.
C6_FailedWriteFailsPass ==
  [][rejects' # rejects =>
       /\ writtenFilesCache' = writtenFilesCache
       /\ \A op \in Settled :
            /\ \A filePath \in DOMAIN disk \ {op.filePath} :
                 Lookup(disk', filePath) = disk[filePath]
            /\ Len(outcomes') >= op.pass
            /\ outcomes'[op.pass][1] = "Left"]_vars

\* A pass failed on a rejected write after a sibling write had stored a
\* file and its cache entry.
C6_Witness ==
  /\ rejects = 1
  /\ passNo = 1
  /\ PassFailed(1)
  /\ writtenFilesCache # EmptyMap
  /\ \E i \in 1..Len(cache) :
       Lookup(disk, dataJsonFiles(cache)[i].filePath)
         = dataJsonFiles(cache)[i].content


\* provideSchema or ArtifactsDir.mkdir failed.
ResolveFailed == resolved # <<>> /\ resolved # <<"Right", "Right">>

\* The outcome emitted by a step, if it emits one.
Emitted(error) ==
  Len(outcomes') = Len(outcomes) + 1 /\ outcomes'[Len(outcomes')] = Left(error)

\* C7: when provideSchema fails, or making the output root fails, or
\* fetchData emits a failure, the outcome is a failure and nothing is
\* planned: no mkdir and no write is issued, no file and no cache entry
\* changes.
C7_InputErrorsWriteNothing ==
  /\ [](ResolveFailed =>
          /\ Len(outcomes) = 1 /\ outcomes[1][1] = "Left"
          /\ pc = "Ended" /\ passNo = 0
          /\ mkdirPending = {} /\ pending = {} /\ issued = {}
          /\ disk = EmptyMap /\ writtenFilesCache = EmptyMap)
  /\ [][Emitted("SourceFetchDataError") =>
          /\ mkdirPending' = {} /\ issued' = {}
          /\ pending' = pending
          /\ disk' = disk /\ writtenFilesCache' = writtenFilesCache]_vars

\* Making the output root failed although the schema was provided.
C7_Witness ==
  /\ resolved = <<"Right", "Left">>
  /\ outcomes = <<Left("MkdirError")>>
  /\ pc = "Ended"

\* The latest element of fetchData was a snapshot.
SnapshotPass ==
  passNo >= 1
    /\ ~(PassEnded(passNo) /\ outcomes[passNo] = Left("SourceFetchDataError"))

SingletonWithoutDocument ==
  \E i \in 1..Len(schemaDef) :
    /\ schemaDef[i].isSingleton
    /\ ~\E j \in 1..Len(cache) : cache[j].document.type = schemaDef[i].name

\* C8: when the schema has a singleton type and the snapshot holds no
\* document of it, the pass fails and issues no mkdir and no write, so no
\* barrel referencing a missing data file is written.
C8_SingletonPrecondition ==
  SnapshotPass /\ SingletonWithoutDocument =>
    /\ PassFailed(passNo)
    /\ mkdirPending = {}
    /\ issued = {}
    /\ ~\E op \in pending : op.pass = passNo

\* After a successful pass, a snapshot without the singleton's document
\* failed the second pass.
C8_Witness ==
  /\ passNo = 2
  /\ PassSucceeded(1)
  /\ SingletonWithoutDocument
  /\ PassEnded(2) /\ outcomes[2] = Left("UnknownFSError")


\* Every pass so far has ended, and ended with a document count.
AllPassesSucceeded ==
  /\ passNo >= 1
  /\ Len(outcomes) = passNo
  /\ \A k \in 1..passNo : PassSucceeded(k)

\* What a pass over the latest schema and snapshot writes to filePath when
\* it starts from an empty cache.
ColdStartContents(filePath) ==
  {op.content : op \in {o \in writeOps(schemaDef, cache, EmptyMap, passNo) :
                          o.filePath = filePath}}

\* C1: after any sequence of successful passes, every file planned by the
\* latest pass holds the content a pass starting from an empty cache would
\* write to it.
C1_IncrementalEqualsFullRebuild ==
  AllPassesSucceeded =>
    \A i \in 1..Len(plannedFiles(schemaDef, cache)) :
      LET filePath == plannedFiles(schemaDef, cache)[i].filePath
      IN  Lookup(disk, filePath) \in ColdStartContents(filePath)

\* The number of writes of the running pass to the data file of document i.
WritesToDataFile(i) ==
  Cardinality({k \in issued :
                 plannedFiles(schemaDef, cache)[k].filePath
                   = dataJsonFiles(cache)[i].filePath})

\* C2: of two consecutive passes, the second issues no write to the data
\* file of a document whose path and fingerprint are those of the first
\* pass, and exactly one when its fingerprint differs.  (Stated for a first
\* pass that succeeded and a second that came to its writing step.)
C2_WriteAvoidance ==
  passNo >= 2 /\ PassSucceeded(passNo - 1) /\ ReachedWriting =>
    \A i \in 1..Len(cache) :
      /\ docDelta[i] = "same" => WritesToDataFile(i) = 0
      /\ docDelta[i] = "differs" => WritesToDataFile(i) = 1

\* The snapshot holds at most one document of each singleton type.
SingletonsAreSingle ==
  \A i \in 1..Len(schemaDef) :
    schemaDef[i].isSingleton =>
      Cardinality({j \in 1..Len(cache) :
                     cache[j].document.type = schemaDef[i].name}) <= 1

\* Two documents of the snapshot of one type whose ids give one file name.
Colliding(i, j) ==
  /\ i # j
  /\ cache[i].document._id # cache[j].document._id
  /\ cache[i].document.type = cache[j].document.type
  /\ idToFileName(cache[i].document._id) = idToFileName(cache[j].document._id)

\* C9: no two distinct identifiers of one type in a snapshot get the same
\* data file; should two collide, the pass fails and does not write both
\* documents to the one file.
C9_NoSilentMerge ==
  SnapshotPass /\ SingletonsAreSingle =>
    \A i, j \in 1..Len(cache) :
      Colliding(i, j) =>
        /\ ~(DocIdx(i) \in issued /\ DocIdx(j) \in issued)
        /\ PassEnded(passNo) => PassFailed(passNo)

\* The order of JS string comparison, by UTF-16 code unit.
RECURSIVE LexLeq(_, _)
LexLeq(a, b) ==
  IF a = <<>> THEN TRUE
  ELSE IF b = <<>> THEN FALSE
  ELSE IF CharCode(Head(a)) # CharCode(Head(b))
  THEN CharCode(Head(a)) < CharCode(Head(b))
  ELSE LexLeq(Tail(a), Tail(b))

IndexOrders(n) ==
  {p \in [1..n -> 1..n] : \A i, j \in 1..n : p[i] = p[j] => i = j}

Permuted(s, p) == [i \in 1..Len(s) |-> s[p[i]]]

\* ids in lexical order.
SortLex(ids) ==
  LET p == CHOOSE q \in IndexOrders(Len(ids)) :
             \A i, j \in 1..Len(ids) :
               i < j => LexLeq(ids[q[i]], ids[q[j]])
  IN  Permuted(ids, p)

PlannedSet(schemaDef_, cache_) ==
  {<<f.filePath, f.content>> : f \in Range(plannedFiles(schemaDef_, cache_))}

\* C10: the planned paths and contents are the same for every iteration
\* order of the snapshot's document map, and the barrel of a collection
\* type lists its documents in lexically sorted identifier order.
C10_PlannerOrderIndependent ==
  SnapshotPass /\ SingletonsAreSingle /\ ~planningThrows(schemaDef, cache) =>
    /\ \A p \in IndexOrders(Len(cache)) :
         PlannedSet(schemaDef, Permuted(cache, p)) = PlannedSet(schemaDef, cache)
    /\ \A i \in 1..Len(schemaDef) :
         ~schemaDef[i].isSingleton =>
           LET ids == SelectDocs(MapSeq(cache, LAMBDA item : item.document),
                                 schemaDef[i].name)
           IN  dataBarrelFiles(schemaDef, cache)[i].content
                 = makeDataExportFile(schemaDef[i], SortLex(ids))


\* The step in which the writes of the running pass are handed to fs.
WritesIssued ==
  /\ pc = "EnsuringDirectories"
  /\ \/ pc' = "Writing"
     \/ /\ Len(outcomes') = Len(outcomes) + 1
        /\ outcomes'[Len(outcomes')][1] = "Right"

\* C11: when the writes of a pass are issued, the data file of every document
\* whose output path has no entry in the cache is written, whatever hashes
\* the cache holds under other paths.
C11_CacheKeyedByPath ==
  [][WritesIssued =>
       \A i \in 1..Len(cache) :
         dataJsonFiles(cache)[i].filePath \notin DOMAIN writtenFilesCache
           => DocIdx(i) \in issued']_vars

\* A second pass issued the write of a document under a path the cache does
\* not hold, while the cache holds the document's hash under another path.
C11_Witness ==
  /\ pc = "Writing"
  /\ passNo = 2
  /\ \E i \in 1..Len(cache) :
       /\ DocIdx(i) \in issued
       /\ dataJsonFiles(cache)[i].filePath \notin DOMAIN writtenFilesCache
       /\ \E filePath \in DOMAIN writtenFilesCache :
            writtenFilesCache[filePath] = cache[i].documentHash


\* C12: a mkdir that reports EEXIST counts as success and does not fail the
\* pass; a mkdir that reports any other error fails the pass, and no write
\* of that pass is issued.
C12_MkdirIdempotentElseFatal ==
  [][mkdirCode' # "none" =>
       IF mkdirCode' \in {"ok", "EEXIST"}
       THEN /\ ~PassFailed(passNo)'
            /\ mkdirPending' = {} => ReachedWriting'
       ELSE /\ PassFailed(passNo)'
            /\ outcomes' = Append(outcomes, Left("UnknownFSError"))
            /\ issued' = {}
            /\ pending' = pending]_vars

\* The last mkdir of a second pass reported EEXIST and the writes of the
\* pass were issued.
C12_Witness ==
  /\ mkdirCode = "EEXIST"
  /\ passNo = 2
  /\ pc = "Writing"
  /\ issued # {}


\* The step emits the success of the running pass.
EmitsSuccess ==
  /\ Len(outcomes') = Len(outcomes) + 1
  /\ outcomes'[Len(outcomes')][1] = "Right"

\* C13: a pass that succeeds reports the number of documents of its own
\* snapshot, and it succeeds only when none of its writes was rejected and
\* none is still running.
C13_DocumentCount ==
  [][EmitsSuccess =>
       /\ outcomes'[Len(outcomes')] = Right(Len(cache))
       /\ Len(outcomes') = passNo
       /\ rejects' = rejects
       /\ ~\E op \in pending' : op.pass = passNo
       /\ \A i \in issued' :
            plannedFiles(schemaDef, cache)[i].filePath \in DOMAIN disk']_vars

\* A pass over one document reported 1; the next pass, over an empty
\* snapshot, wrote six files and reported 0.
C13_Witness ==
  /\ outcomes = <<Right(1), Right(0)>>
  /\ passNo = 2
  /\ Cardinality(issued) = 6


\* C14: the outcome of a pass is reported only when every write the pass
\* issued has settled: no write settles, storing a file or a cache entry,
\* once the outcome of its pass is reported or a later pass has started.
C14_OutcomeJoinsAllWrites ==
  [][\A op \in Settled : ~PassEnded(op.pass) /\ op.pass = passNo]_vars


\* The steps from one position of a pass to the next.
PhaseOrder ==
  {<<"Idle", "AwaitSnapshot">>, <<"Idle", "Ended">>,
   <<"AwaitSnapshot", "AwaitSnapshot">>, <<"AwaitSnapshot", "Ended">>,
   <<"AwaitSnapshot", "DebugMkdir">>,
   <<"AwaitSnapshot", "EnsuringDirectories">>,
   <<"DebugMkdir", "DebugSchema">>, <<"DebugMkdir", "AwaitSnapshot">>,
   <<"DebugSchema", "DebugData">>, <<"DebugSchema", "AwaitSnapshot">>,
   <<"DebugData", "EnsuringDirectories">>, <<"DebugData", "AwaitSnapshot">>,
   <<"EnsuringDirectories", "EnsuringDirectories">>,
   <<"EnsuringDirectories", "Writing">>,
   <<"EnsuringDirectories", "AwaitSnapshot">>,
   <<"Writing", "Writing">>, <<"Writing", "AwaitSnapshot">>}

\* C15: a pass goes from its inputs through planning and the mkdirs to its
\* writes: no mkdir is started before the schema and the snapshot are there,
\* and the writes of the artifacts are issued in the step in which the last
\* mkdir of types/ and of every data/<typeName>/ resolved, none having
\* failed.
C15_PhasesOrdered ==
  /\ [](mkdirPending # {} =>
          /\ resolved = <<"Right", "Right">>
          /\ schemaDef # <<>>
          /\ passNo >= 1
          /\ pc = "EnsuringDirectories"
          /\ mkdirPending \subseteq dataDirPaths(schemaDef))
  /\ []((issued # {} \/ \E op \in pending : op.pass = passNo) =>
          mkdirPending = {} /\ pc \in {"Writing", "AwaitSnapshot", "Ended"})
  /\ [][/\ <<pc, pc'>> \in PhaseOrder
        /\ pc # "EnsuringDirectories" /\ pc' = "EnsuringDirectories" =>
             mkdirPending' = dataDirPaths(schemaDef)
        /\ pc = "EnsuringDirectories" /\ pc' = "EnsuringDirectories" =>
             /\ mkdirCode' \in {"ok", "EEXIST"}
             /\ mkdirPending' \subseteq mkdirPending
             /\ Cardinality(mkdirPending') = Cardinality(mkdirPending) - 1
        /\ pending' \ pending # {} =>
             /\ pc = "EnsuringDirectories"
             /\ Cardinality(mkdirPending) = 1
             /\ mkdirPending' = {}
             /\ mkdirCode' \in {"ok", "EEXIST"}]_vars

\* A pass that dumped its debug files ensured its directories and then
\* issued its writes.
C15_Witness ==
  /\ pc = "Writing"
  /\ issued # {}
  /\ mkdirCode \in {"ok", "EEXIST"}
  /\ withPrefix(<<"cache", "data-cache", ".json">>) \in DOMAIN disk
  /\ withPrefix(<<"package", ".json">>) \notin DOMAIN disk


\* C16: when the write of a request that carries a fingerprint resolves, the
\* cache holds that fingerprint under the request's path, whatever string
\* the fingerprint is.
C16_SuppliedFingerprintRecorded ==
  [][\A op \in Settled :
       rejects' = rejects /\ op.documentHash # Undefined =>
         Lookup(writtenFilesCache', op.filePath) = op.documentHash]_vars


\* C17: the files planned by a pass have pairwise distinct paths, so no two
\* writes of a pass go to the same file or the same cache key.
C17_DistinctPaths ==
  SnapshotPass /\ SingletonsAreSingle /\ ~planningThrows(schemaDef, cache) =>
    \A i, j \in 1..Len(plannedFiles(schemaDef, cache)) :
      i # j => plannedFiles(schemaDef, cache)[i].filePath
                 # plannedFiles(schemaDef, cache)[j].filePath


\* A pass is between the arrival of its snapshot and its outcome.
PassRunning ==
  pc \in {"DebugMkdir", "DebugSchema", "DebugData", "EnsuringDirectories",
          "Writing"}

\* C18: every element of fetchData gets one pass and one outcome, in order:
\* an outcome once emitted is never revised, a pass starts only after the
\* outcome of the one before, with the cache that one left, starts its
\* mkdirs and issues its writes once, and its outcome, failure included,
\* leaves the stream waiting for the next snapshot.  Under generateDotpkg
\* the stream takes one element and emits one outcome only.
C18_OnePassPerSnapshot ==
  /\ [](resolved = <<"Right", "Right">> =>
          /\ Len(outcomes) = IF PassRunning THEN passNo - 1 ELSE passNo
          /\ PassRunning => passNo >= 1)
  /\ [](entry = "generateDotpkg" => passNo <= 1 /\ Len(outcomes) <= 1)
  /\ [][/\ Len(outcomes') \in {Len(outcomes), Len(outcomes) + 1}
        /\ SubSeq(outcomes', 1, Len(outcomes)) = outcomes
        /\ passNo' \in {passNo, passNo + 1}
        /\ passNo' = passNo + 1 =>
             /\ Len(outcomes) = passNo
             /\ writtenFilesCache' = writtenFilesCache
        /\ pc' = "EnsuringDirectories" /\ pc # "EnsuringDirectories" =>
             passNo' = passNo + 1
        /\ pending' \ pending # {} =>
             /\ issued = {}
             /\ \A op \in pending' \ pending : op.pass = passNo
        /\ passNo' >= 1 /\ Len(outcomes') = Len(outcomes) + 1 =>
             pc' = "AwaitSnapshot"]_vars

\* Under generateDotpkgStream a pass failed on a rejected write and the
\* pass of the next snapshot succeeded with the cache of the run.
C18_Witness ==
  /\ entry = "generateDotpkgStream"
  /\ passNo = 2
  /\ outcomes = <<Left("UnknownFSError"), Right(1)>>
  /\ rejects = 1
  /\ writtenFilesCache # EmptyMap


\* The number of '/' among the first n characters of id.
Slashes(id, n) == Cardinality({k \in 1..n : id[k] = "/"})

LeadingDigit(id) == Len(id) > 0 /\ id[1] \in Digits

\* Where character k of id starts in its file name: after the underscore of
\* a leading digit and the second underscore of every '/' before it.
Pos(id, k) == (IF LeadingDigit(id) THEN 1 ELSE 0) + k + Slashes(id, k - 1)

\* The file name of the data file planned for document i.
PlannedFileName(i) == dataJsonFiles(cache)[i].filePath[4]

\* C19: the data file of a document of id `id` is named by id with an
\* underscore put before a leading digit and every '/' replaced by '__':
\* the name holds no '/', starts with no digit, is id itself when id has
\* neither, and is '_2024__b' for '2024/b'.
C19_IdToFileName ==
  SnapshotPass =>
    \A i \in 1..Len(cache) :
      LET id == cache[i].document._id
          f == PlannedFileName(i)
      IN  /\ f = idToFileName(id)
          /\ Len(f) = Pos(id, Len(id) + 1) - 1
          /\ LeadingDigit(id) => f[1] = "_"
          /\ \A k \in 1..Len(id) :
               IF id[k] = "/"
               THEN f[Pos(id, k)] = "_" /\ f[Pos(id, k) + 1] = "_"
               ELSE f[Pos(id, k)] = id[k]
          /\ "/" \notin Range(f)
          /\ ~LeadingDigit(f)
          /\ ~LeadingDigit(id) /\ "/" \notin Range(id) => f = id
          /\ id = <<"2", "0", "2", "4", "/", "b">> =>
               f = <<"_", "2", "0", "2", "4", "_", "_", "b">>
          /\ id = <<"a">> => f = <<"a">>

\* The data file of the document of id '2024/b' was written as _2024__b.json.
C19_Witness ==
  /\ Len(cache) = 1
  /\ cache[1].document._id = <<"2", "0", "2", "4", "/", "b">>
  /\ withPrefix(<<"data", cache[1].document.type,
                  <<"_", "2", "0", "2", "4", "_", "_", "b">>, ".json">>)
       \in DOMAIN disk


\* C20: whenever the cache holds hash h for path p, the file at p holds the
\* content of the document planned at p with hash h.
C20_SkipSoundness ==
  \A filePath \in DOMAIN writtenFilesCache :
    \E item \in CacheItems(schemaDef, DocIds) :
      /\ dataJsonFiles(<<item>>)[1].filePath = filePath
      /\ item.documentHash = writtenFilesCache[filePath]
      /\ Lookup(disk, filePath) = JSONstringify(item.document)

====
